---- MODULE Spec2Model ----
(***************************************************************************)
(* Model of pendulo_app.py: a Streamlit script that integrates the simple  *)
(* pendulum theta'' + (g/L) sin(theta) = 0 with scipy's solve_ivp behind   *)
(* st.cache_resource and derives energies, a phase-space vector field and  *)
(* a separatrix curve from the result.                                     *)
(*                                                                         *)
(* Numbers.  Python/numpy floats are modelled as decimal floating point:   *)
(* a value is <<m, e>> = m * 10^e with a six-digit mantissa                *)
(* (10^5 <= |m| < 10^6), zero is <<0, 0>>, and the exponent range is that  *)
(* of binary64 (about 10^-324 .. 10^308).  Overflow gives +-inf, invalid   *)
(* operations give nan, comparisons with nan are false: the IEEE 754       *)
(* behaviour numpy exposes.  Only the precision (6 digits instead of 16)   *)
(* differs from the program's arithmetic.                                  *)
(***************************************************************************)
EXTENDS Integers, Sequences, FiniteSets, TLC

(* ------------------------------------------------------------------ *)
(* Floating point                                                     *)
(* ------------------------------------------------------------------ *)
MantLo == 10^5
MantHi == 10^6
\* largest / smallest decimal exponent of a six-digit mantissa in binary64's range
EMax == 303
EMin == -329
XExp == EMax + 1

Zero == <<0, 0>>
Inf == <<1, XExp>>
NegInf == <<-1, XExp>>
NaN == <<0, XExp>>

Abs(i) == IF i < 0 THEN -i ELSE i
Sgn(i) == IF i < 0 THEN -1 ELSE IF i > 0 THEN 1 ELSE 0

IsNaN(x) == x = NaN
IsInf(x) == x[2] = XExp /\ x[1] # 0
IsFinite(x) == x[2] # XExp

NDigits(a) ==
    IF a < 10 THEN 1 ELSE IF a < 100 THEN 2 ELSE IF a < 1000 THEN 3
    ELSE IF a < 10^4 THEN 4 ELSE IF a < 10^5 THEN 5 ELSE IF a < 10^6 THEN 6
    ELSE IF a < 10^7 THEN 7 ELSE IF a < 10^8 THEN 8 ELSE IF a < 10^9 THEN 9
    ELSE 10

\* overflow to +-inf, underflow to zero
Pack(m, e) ==
    IF e > EMax THEN (IF m > 0 THEN Inf ELSE NegInf)
    ELSE IF e < EMin THEN Zero
    ELSE <<m, e>>

\* the float nearest to m * 10^e (round half away from zero)
\* (the steps of Norm: the rounded mantissa q may carry into a seventh digit)
NormCarry(s, q, e) ==
    IF q = MantHi THEN Pack(s * MantLo, e + 1) ELSE Pack(s * q, e)
NormDigits(s, a, n, e) ==
    IF n > 6 THEN NormCarry(s, (a + 5 * 10^(n - 7)) \div 10^(n - 6), e + n - 6)
    ELSE Pack(s * a * 10^(6 - n), e - (6 - n))
Norm(m, e) ==
    IF m = 0 THEN Zero ELSE NormDigits(Sgn(m), Abs(m), NDigits(Abs(m)), e)

\* the literal m * 10^e, and the float of an integer
D(m, e) == Norm(m, e)
FromInt(i) == Norm(i, 0)

FNeg(x) == <<-x[1], x[2]>>
FAbs(x) == <<Abs(x[1]), x[2]>>

\* (the sum of hi and lo, the exponent of hi the larger by d: lo is shifted
\* onto hi's digits with k guard digits, and is lost when d > 9)
AddAligned(hi, lo, d, k) ==
    Norm(hi[1] * 10^k + Sgn(lo[1]) * (Abs(lo[1]) \div 10^(d - k)), hi[2] - k)
AddOrdered(hi, lo, d) ==
    IF d > 9 THEN hi ELSE AddAligned(hi, lo, d, IF d < 3 THEN d ELSE 3)
FAdd(x, y) ==
    IF IsNaN(x) \/ IsNaN(y) THEN NaN
    ELSE IF IsInf(x) THEN (IF IsInf(y) /\ y[1] # x[1] THEN NaN ELSE x)
    ELSE IF IsInf(y) THEN y
    ELSE IF x[1] = 0 THEN y
    ELSE IF y[1] = 0 THEN x
    ELSE IF x[2] >= y[2] THEN AddOrdered(x, y, x[2] - y[2])
    ELSE AddOrdered(y, x, y[2] - x[2])

FSub(x, y) == FAdd(x, FNeg(y))

\* (the leading digits of a * b / 10^5, from three-digit halves)
MulParts(ah, al, bh, bl) ==
    ah * bh * 10 + ((ah * bl + al * bh) * 1000 + al * bl) \div 10^5
MulAbs(a, b) == MulParts(a \div 1000, a % 1000, b \div 1000, b % 1000)
FMul(x, y) ==
    IF IsNaN(x) \/ IsNaN(y) THEN NaN
    ELSE IF IsInf(x) \/ IsInf(y)
         THEN (IF x[1] = 0 \/ y[1] = 0 THEN NaN
               ELSE IF Sgn(x[1]) = Sgn(y[1]) THEN Inf ELSE NegInf)
    ELSE IF x[1] = 0 \/ y[1] = 0 THEN Zero
    ELSE Norm(Sgn(x[1]) * Sgn(y[1]) * MulAbs(Abs(x[1]), Abs(y[1])), x[2] + y[2] + 5)

RECURSIVE LongDiv(_, _, _)
\* k decimal digits of r / b, for 0 <= r < b
LongDiv(r, b, k) ==
    IF k = 0 THEN 0
    ELSE ((r * 10) \div b) * 10^(k - 1) + LongDiv((r * 10) % b, b, k - 1)

DivAbs(a, b) == (a \div b) * MantHi + LongDiv(a % b, b, 6)

\* numpy's true division: x / 0 is +-inf or nan, never an exception
FDiv(x, y) ==
    IF IsNaN(x) \/ IsNaN(y) THEN NaN
    ELSE IF IsInf(x)
         THEN (IF IsInf(y) THEN NaN
               ELSE IF Sgn(x[1]) * (IF y[1] < 0 THEN -1 ELSE 1) > 0 THEN Inf ELSE NegInf)
    ELSE IF IsInf(y) THEN Zero
    ELSE IF y[1] = 0
         THEN (IF x[1] = 0 THEN NaN ELSE IF x[1] > 0 THEN Inf ELSE NegInf)
    ELSE IF x[1] = 0 THEN Zero
    ELSE Norm(Sgn(x[1]) * Sgn(y[1]) * DivAbs(Abs(x[1]), Abs(y[1])), x[2] - y[2] - 6)

\* x < y, x <= y, x == y on floats: false whenever a nan is involved
FLt(x, y) ==
    /\ ~IsNaN(x)
    /\ ~IsNaN(y)
    /\ IF Sgn(x[1]) # Sgn(y[1]) THEN x[1] < y[1]
       ELSE IF x[1] = 0 THEN FALSE
       ELSE IF x[1] > 0 THEN x[2] < y[2] \/ (x[2] = y[2] /\ x[1] < y[1])
       ELSE x[2] > y[2] \/ (x[2] = y[2] /\ x[1] < y[1])
FEq(x, y) == ~IsNaN(x) /\ ~IsNaN(y) /\ x = y
FLe(x, y) == FEq(x, y) \/ FLt(x, y)
FGt(x, y) == FLt(y, x)
FGe(x, y) == FLe(y, x)

\* Python's builtin min(a, b) and max(a, b): b replaces a only when b < a (b > a)
PyMin(a, b) == IF FLt(b, a) THEN b ELSE a
PyMax(a, b) == IF FGt(b, a) THEN b ELSE a
\* np.maximum: a nan operand gives nan
NpMaximum(a, b) == IF IsNaN(a) \/ IsNaN(b) THEN NaN ELSE IF FLt(a, b) THEN b ELSE a

RECURSIVE ISqrtB(_, _, _)
\* the largest r in lo..hi with r * r <= n
ISqrtB(n, lo, hi) ==
    IF lo >= hi THEN lo
    ELSE IF ((lo + hi + 1) \div 2) * ((lo + hi + 1) \div 2) <= n
         THEN ISqrtB(n, (lo + hi + 1) \div 2, hi)
         ELSE ISqrtB(n, lo, (lo + hi + 1) \div 2 - 1)

\* (sqrt(m * 10^e) for an even e: the integer root s0 of m and one Newton step)
SqrtNewton(m, s0, e) == Norm(s0 * 1000 + ((m - s0 * s0) * 500) \div s0, (e \div 2) - 3)
SqrtEven(m, e) == SqrtNewton(m, ISqrtB(m, 300, 3200), e)

\* np.sqrt: nan for a negative argument
FSqrt(x) ==
    IF IsNaN(x) THEN NaN
    ELSE IF x[1] < 0 THEN NaN
    ELSE IF IsInf(x) THEN Inf
    ELSE IF x[1] = 0 THEN Zero
    ELSE IF x[2] % 2 = 1 THEN SqrtEven(x[1] * 10, x[2] - 1)
    ELSE SqrtEven(x[1], x[2])

Two == FromInt(2)
One == FromInt(1)

RECURSIVE Root5Guess(_, _, _, _)
RECURSIVE Root5Bisect(_, _, _, _, _)
\* the largest d in lo..hi with (d/10)^5 <= m * 10^j / 10^5, to the guess's accuracy
Root5Guess(m, j, lo, hi) ==
    IF lo >= hi THEN lo
    ELSE Root5Bisect(m, j, lo, hi, (lo + hi + 1) \div 2)
Root5Bisect(m, j, lo, hi, mid) ==
    IF mid * mid * mid * mid <= (m \div mid) * 10^j
    THEN Root5Guess(m, j, mid, hi)
    ELSE Root5Guess(m, j, lo, mid - 1)

FSquare(x) == FMul(x, x)
\* one Newton step for r^5 = x: (4 r + x / r^4) / 5
Root5Newton(x, r) == FDiv(FAdd(FMul(FromInt(4), r), FDiv(x, FSquare(FSquare(r)))), FromInt(5))

\* x ** 0.2 for x >= 0
FRoot5(x) ==
    IF IsNaN(x) THEN NaN
    ELSE IF x[1] < 0 THEN NaN
    ELSE IF IsInf(x) THEN Inf
    ELSE IF x[1] = 0 THEN Zero
    ELSE Root5Newton(x, Root5Newton(x, Root5Newton(x,
             Norm(Root5Guess(x[1], (x[2] + 5) % 5, 10, 99), ((x[2] + 5) \div 5) - 1))))

\* x ** -0.2 for x >= 0
FInvRoot5(x) == FDiv(One, FRoot5(x))

\* pi, 2 pi and pi / 2 are not floats: each is its nearest float plus a remainder
Pi == D(314159, -5)
PiLo == D(265359, -11)
TwoPi == D(628319, -5)
TwoPiLo == D(-469282, -11)
HalfPi == D(157080, -5)

\* the integer nearest to a finite x with |x| < 10^9
ToInt(x) ==
    IF x[1] = 0 THEN 0
    ELSE IF x[2] >= 0 THEN x[1] * 10^x[2]
    ELSE IF x[2] < -7 THEN 0
    ELSE Sgn(x[1]) * ((Abs(x[1]) + 5 * 10^(-x[2] - 1)) \div 10^(-x[2]))

\* x reduced to about [-pi, pi]; past 10^9 no digit of the angle is left and 0 is used
ReduceBy(x, k) == FSub(FSub(x, FMul(k, TwoPi)), FMul(k, TwoPiLo))
ReduceQuot(x, q) == IF q[2] > 3 THEN Zero ELSE ReduceBy(x, FromInt(ToInt(q)))
ReduceAngle(x) == IF FLe(FAbs(x), Pi) THEN x ELSE ReduceQuot(x, FDiv(x, TwoPi))

\* Taylor polynomials on [0, pi/2], u = r * r
SinHorner(r, u) ==
    FMul(r, FSub(One, FMul(FDiv(u, FromInt(6)),
            FSub(One, FMul(FDiv(u, FromInt(20)),
            FSub(One, FMul(FDiv(u, FromInt(42)),
            FSub(One, FMul(FDiv(u, FromInt(72)),
            FSub(One, FDiv(u, FromInt(110))))))))))))
SinPoly(r) == SinHorner(r, FSquare(r))
CosHorner(u) ==
    FSub(One, FMul(FDiv(u, Two),
    FSub(One, FMul(FDiv(u, FromInt(12)),
    FSub(One, FMul(FDiv(u, FromInt(30)),
    FSub(One, FMul(FDiv(u, FromInt(56)),
    FSub(One, FMul(FDiv(u, FromInt(90)),
    FSub(One, FDiv(u, FromInt(132)))))))))))))
CosPoly(r) == CosHorner(FSquare(r))

\* an angle a in [0, pi] folded onto [0, pi/2]: sin(a) = sin(pi - a),
\* cos(a) = -cos(pi - a)
FoldAngle(a) == IF FGt(a, HalfPi) THEN FAdd(FSub(Pi, a), PiLo) ELSE a
SinSigned(p, r) == IF r[1] < 0 THEN FNeg(p) ELSE p
CosSigned(c, a) == IF FGt(a, HalfPi) THEN FNeg(c) ELSE c
SinReduced(r) == SinSigned(SinPoly(FoldAngle(FAbs(r))), r)
CosReduced(a) == CosSigned(CosPoly(FoldAngle(a)), a)

\* np.sin, np.cos: nan for a non-finite argument
FSin(x) == IF ~IsFinite(x) THEN NaN ELSE SinReduced(ReduceAngle(x))
FCos(x) == IF ~IsFinite(x) THEN NaN ELSE CosReduced(FAbs(ReduceAngle(x)))

(* ------------------------------------------------------------------ *)
(* numpy helpers                                                      *)
(* ------------------------------------------------------------------ *)
Frac(n, d) == FDiv(FromInt(n), FromInt(d))

\* np.linspace(start, stop, num)[i] for i in 0..num-1: start + i * step, the
\* last sample set to stop itself
LinspaceAt(start, stop, num, i) ==
    IF i = num - 1 /\ num > 1 THEN stop
    ELSE FAdd(FMul(FromInt(i), FDiv(FSub(stop, start), FromInt(num - 1))), start)
linspace(start, stop, num) == [i \in 1..num |-> LinspaceAt(start, stop, num, i - 1)]

\* np.radians
radians(x) == FMul(x, FDiv(Pi, FromInt(180)))

\* scipy.integrate._ivp.common.norm: RMS norm of a 2-vector
norm(v) == FDiv(FSqrt(FAdd(FMul(v[1], v[1]), FMul(v[2], v[2]))), FSqrt(Two))

VAdd(a, b) == <<FAdd(a[1], b[1]), FAdd(a[2], b[2])>>
VSub(a, b) == <<FSub(a[1], b[1]), FSub(a[2], b[2])>>
VScale(a, c) == <<FMul(a[1], c), FMul(a[2], c)>>
VDiv(a, b) == <<FDiv(a[1], b[1]), FDiv(a[2], b[2])>>

RECURSIVE DotCol(_, _, _, _)
\* np.dot(K[:s].T, a[:s])[c]
DotCol(K, a, c, s) ==
    IF s = 0 THEN Zero
    ELSE FAdd(DotCol(K, a, c, s - 1), FMul(K[s][c], a[s]))
Dot(K, a, s) == <<DotCol(K, a, 1, s), DotCol(K, a, 2, s)>>

(* ------------------------------------------------------------------ *)
(* The right-hand side and the integrator                             *)
(*                                                                    *)
(* solve_ivp is SciPy's, called at line 52 with its defaults: method  *)
(* RK45 (Dormand-Prince 5(4) with dense output), rtol 1e-3, atol      *)
(* 1e-6.  The operators below follow scipy.integrate._ivp (ivp.py,    *)
(* rk.py, common.py, base.py) and keep its names.                     *)
(* ------------------------------------------------------------------ *)
\* g / L on Python floats raises ZeroDivisionError for L == 0
pendulum_raises(g, L) == L = Zero

\* a faulty right-hand side, cos for sin: the property of the equilibrium (C7)
\* must tell it from pendulum
pendulum_cos(g, L, y) == <<y[2], FMul(FNeg(FDiv(g, L)), FCos(y[1]))>>

\* def pendulum(t, y): return [y[1], - (g / L) * np.sin(y[0])]
pendulum(g, L, y) == <<y[2], FMul(FNeg(FDiv(g, L)), FSin(y[1]))>>

\* solve_ivp's defaults: method RK45, rtol, atol, and the step controller
rtol == D(1, -3)
atol == D(1, -6)
SAFETY == D(9, -1)
MIN_FACTOR == D(2, -1)
MAX_FACTOR == FromInt(10)
t0 == Zero
tf == FromInt(10)

\* RK45 (Dormand-Prince) tableau
RK_A == << <<>>,
           <<Frac(1, 5)>>,
           <<Frac(3, 40), Frac(9, 40)>>,
           <<Frac(44, 45), Frac(-56, 15), Frac(32, 9)>>,
           <<Frac(19372, 6561), Frac(-25360, 2187), Frac(64448, 6561), Frac(-212, 729)>>,
           <<Frac(9017, 3168), Frac(-355, 33), Frac(46732, 5247), Frac(49, 176),
             Frac(-5103, 18656)>> >>
RK_B == <<Frac(35, 384), Zero, Frac(500, 1113), Frac(125, 192), Frac(-2187, 6784),
          Frac(11, 84)>>
RK_E == <<Frac(-71, 57600), Zero, Frac(71, 16695), Frac(-71, 1920),
          Frac(17253, 339200), Frac(-22, 525), Frac(1, 40)>>
RK_P == << <<One, D(-285358, -5), D(307174, -5), D(-112702, -5)>>,
           <<Zero, Zero, Zero, Zero>>,
           <<Zero, D(402313, -5), D(-624932, -5), D(267542, -5)>>,
           <<Zero, D(-373240, -5), D(100690, -4), D(-568553, -5)>>,
           <<Zero, D(255480, -5), D(-639911, -5), D(352193, -5)>>,
           <<Zero, D(-137442, -5), D(327266, -5), D(-176728, -5)>>,
           <<Zero, D(138247, -5), D(-376494, -5), D(238247, -5)>> >>


\* scale = atol + np.maximum(np.abs(y), np.abs(y_new)) * rtol
step_scale(y, y_new) ==
    <<FAdd(atol, FMul(NpMaximum(FAbs(y[1]), FAbs(y_new[1])), rtol)),
      FAdd(atol, FMul(NpMaximum(FAbs(y[2]), FAbs(y_new[2])), rtol))>>

\* _estimate_error_norm: norm(np.dot(K.T, E) * h / scale)
estimate_error_norm(K, h, scale) == norm(VDiv(VScale(Dot(K, RK_E, 7), h), scale))

\* select_initial_step(fun, t0, y0, t_bound, max_step, f0, direction, order, rtol, atol),
\* from its last statement back to its first
initial_step_min(h0, h1) ==
    PyMin(PyMin(PyMin(FMul(FromInt(100), h0), h1), FAbs(FSub(tf, t0))), Inf)
initial_step_h1(d1, d2, h0) ==
    initial_step_min(h0, IF FLe(d1, D(1, -15)) /\ FLe(d2, D(1, -15))
                         THEN PyMax(D(1, -6), FMul(h0, D(1, -3)))
                         ELSE FRoot5(FDiv(D(1, -2), PyMax(d1, d2))))
initial_step_d2(g, L, y0, f0, scale, d1, h0) ==
    initial_step_h1(d1,
        FDiv(norm(VDiv(VSub(pendulum(g, L, VAdd(y0, VScale(f0, h0))), f0), scale)), h0),
        h0)
initial_step_h0(g, L, y0, f0, scale, d0, d1) ==
    initial_step_d2(g, L, y0, f0, scale, d1,
        PyMin(IF FLt(d0, D(1, -5)) \/ FLt(d1, D(1, -5)) THEN D(1, -6)
              ELSE FDiv(FMul(D(1, -2), d0), d1),
              FAbs(FSub(tf, t0))))
initial_step_scaled(g, L, y0, f0, scale) ==
    initial_step_h0(g, L, y0, f0, scale, norm(VDiv(y0, scale)), norm(VDiv(f0, scale)))
select_initial_step(g, L, y0, f0) ==
    initial_step_scaled(g, L, y0, f0,
        <<FAdd(atol, FMul(FAbs(y0[1]), rtol)), FAdd(atol, FMul(FAbs(y0[2]), rtol))>>)

\* np.abs(np.nextafter(t, inf) - t): the spacing of the floats at t
spacing(t) == IF t = Zero THEN <<MantLo, EMin>> ELSE Norm(1, t[2])

\* RK45.__init__: the solver object, with the locals of solve_ivp's loop
\* (t_eval_i, ys) and of _step_impl (min_step, step_rejected, h, t_new)
rk45_state(y0, f0, h_abs) ==
    [t |-> t0, y |-> y0, f |-> f0, h_abs |-> h_abs,
     t_old |-> t0, y_old |-> y0, K |-> <<>>, status |-> "running",
     min_step |-> Zero, step_rejected |-> FALSE, h |-> Zero, t_new |-> t0,
     y_new |-> y0, f_new |-> f0, t_eval_i |-> 0, ys |-> <<>>]
rk45_started(g, L, y0, f0) == rk45_state(y0, f0, select_initial_step(g, L, y0, f0))
rk45_init(a) ==
    rk45_started(a.g, a.L, <<a.theta0, a.omega0>>,
                 pendulum(a.g, a.L, <<a.theta0, a.omega0>>))

\* head of the while loop of _step_impl: give up below min_step, else fix
\* this attempt's h and t_new and restart the stages with K[0] = f
attempt_to(s, t_new) ==
    [s EXCEPT !.t_new = t_new, !.h = FSub(t_new, s.t), !.K = <<s.f>>]
clip_to_bound(t_try) == IF FGt(FSub(t_try, tf), Zero) THEN tf ELSE t_try
attempt_head(s) ==
    IF FLt(s.h_abs, s.min_step) THEN [s EXCEPT !.status = "failed"]
    ELSE attempt_to(s, clip_to_bound(FAdd(s.t, s.h_abs)))

\* entry of _step_impl: min_step and the clamped h_abs
step_from(s, min_step) ==
    attempt_head([s EXCEPT !.min_step = min_step,
                           !.h_abs = IF FLt(s.h_abs, min_step) THEN min_step ELSE s.h_abs,
                           !.step_rejected = FALSE])
step_head(s) == step_from(s, FMul(FromInt(10), spacing(s.t)))

\* RkDenseOutput._call_impl at one time te, with Q = K.T.dot(P)
dense_Q(K, c, j) == DotCol(K, [s \in 1..7 |-> RK_P[s][j]], c, 7)
dense_Qp(K, c, x, x2, x3, x4) ==
    FAdd(FAdd(FAdd(FMul(dense_Q(K, c, 1), x), FMul(dense_Q(K, c, 2), x2)),
              FMul(dense_Q(K, c, 3), x3)), FMul(dense_Q(K, c, 4), x4))
dense_eval(K, h, y_old, x, x2, x3, x4) ==
    <<FAdd(FMul(h, dense_Qp(K, 1, x, x2, x3, x4)), y_old[1]),
      FAdd(FMul(h, dense_Qp(K, 2, x, x2, x3, x4)), y_old[2])>>
dense_at(K, h, y_old, x) ==
    dense_eval(K, h, y_old, x, FMul(x, x), FMul(FMul(x, x), x),
               FMul(FMul(FMul(x, x), x), x))
\* a faulty interpolant, measuring x from the step's end instead of its start:
\* the property of the first sample (C6) must tell it from dense_output
dense_output_from_end(K, t_old, t, y_old, te) ==
    dense_at(K, FSub(t, t_old), y_old, FDiv(FSub(te, t), FSub(t, t_old)))
dense_output(K, t_old, t, y_old, te) ==
    dense_at(K, FSub(t, t_old), y_old, FDiv(FSub(te, t_old), FSub(t, t_old)))

\* np.searchsorted(t_eval, t, side='right'): how many samples are <= t
searchsorted_right(t_eval, t) == Cardinality({i \in 1..Len(t_eval) : FLe(t_eval[i], t)})

\* solve_ivp's checks of t_eval against t_span = (0, 10)
t_eval_rejected(t_eval) ==
    \/ \E i \in 1..Len(t_eval) : FLt(t_eval[i], t0) \/ FGt(t_eval[i], tf)
    \/ \E i \in 1..(Len(t_eval) - 1) : FLe(FSub(t_eval[i + 1], t_eval[i]), Zero)

\* the OdeResult solve_ivp builds when its loop ends
OdeResult(s, t_eval) ==
    LET n == Len(s.ys)
    IN [kind |-> "return",
        status |-> IF s.status = "finished" THEN 0 ELSE -1,
        t |-> SubSeq(t_eval, 1, n),
        y |-> IF n = 0 THEN <<>>
              ELSE <<[i \in 1..n |-> s.ys[i][1]], [i \in 1..n |-> s.ys[i][2]]>>]

\* a faulty key that leaves gravity out: the property of the cache (C9) must
\* tell it from CacheKey
CacheKey_without_g(a) == <<a.L, a.theta0, a.omega0, a.t_eval>>

\* st.cache_resource keys an entry by the arguments of the call
CacheKey(a) == <<a.g, a.L, a.theta0, a.omega0, a.t_eval>>

(* ------------------------------------------------------------------ *)
(* The script's derived quantities                                    *)
(* ------------------------------------------------------------------ *)
\* m = 1.0
m == One

\* bounds of the model: samples of t_eval (the program takes 200) and of
\* theta_sep (the program takes 500), and script runs explored
NumTimeSamples == 5
NumSepSamples == 5
MaxRuns == 3
\* np.linspace(-180, 180, 40), np.linspace(-360, 360, 40)
FieldResolution == 40

\* t_eval = np.linspace(0, 10, 200)
t_eval_grid == linspace(Zero, FromInt(10), NumTimeSamples)

\* KE = 0.5 * m * (L * omega)**2 ; PE = m * g * (L - L * np.cos(theta))
KineticEnergy(L_, om) == FMul(FMul(D(5, -1), m), FMul(FMul(L_, om), FMul(L_, om)))
PotentialEnergy(g_, L_, th) == FMul(FMul(m, g_), FSub(L_, FMul(L_, FCos(th))))

\* E = 0.5 * m * (L**2) * omega0**2 + m * g * L * (1 - np.cos(theta0))
currentEnergy(g_, L_, th, om) ==
    FAdd(FMul(FMul(FMul(D(5, -1), m), FMul(L_, L_)), FMul(om, om)),
         FMul(FMul(FMul(m, g_), L_), FSub(One, FCos(th))))

\* theta_sep = np.linspace(-np.pi, np.pi, 500)
theta_sep_grid == linspace(FNeg(Pi), Pi, NumSepSamples)
\* omega_sep = np.sqrt(2 * g / L * (1 - np.cos(theta_sep))), one element
omega_sep_at(g_, L_, th) == FSqrt(FMul(FDiv(FMul(Two, g_), L_), FSub(One, FCos(th))))

\* lines 55-103 of the script, after sol = solve_pendulum(...): theta, omega,
\* the energies, the separatrix and E; "error" is the exception that ends the
\* run, "" when it runs through
derive(r, g_, L_, theta0, omega0) ==
    IF r.kind = "raise" THEN [error |-> r.exc]
    ELSE IF r.y = <<>> THEN [error |-> "IndexError", sol |-> r]
    ELSE [error |-> IF Len(r.y[1]) # NumTimeSamples THEN "ValueError" ELSE "",
          sol |-> r, theta |-> r.y[1], omega |-> r.y[2],
          KE |-> [i \in 1..Len(r.y[2]) |-> KineticEnergy(L_, r.y[2][i])],
          PE |-> [i \in 1..Len(r.y[1]) |-> PotentialEnergy(g_, L_, r.y[1][i])],
          TE |-> [i \in 1..Len(r.y[1]) |->
                     FAdd(KineticEnergy(L_, r.y[2][i]), PotentialEnergy(g_, L_, r.y[1][i]))],
          theta_sep |-> theta_sep_grid,
          omega_sep |-> [i \in 1..NumSepSamples |-> omega_sep_at(g_, L_, theta_sep_grid[i])],
          E |-> currentEnergy(g_, L_, theta0, omega0)]

\* the phase-space vector field at one grid point (lines 89-94)
field_dT(W) == W
field_dW(g_, L_, T) == FMul(FNeg(FDiv(g_, L_)), FSin(T))
\* magnitude = np.hypot(dT, dW)
magnitude(dT, dW) ==
    IF dW = Zero THEN FAbs(dT)
    ELSE IF dT = Zero THEN FAbs(dW)
    ELSE FSqrt(FAdd(FMul(dT, dT), FMul(dW, dW)))
\* dT_unit = dT / magnitude ; dW_unit = dW / magnitude
unit(d, mag) == FDiv(d, mag)

\* a faulty grid with an odd number of samples, whose middle sample is 0: the
\* property of the sampled field (C10) must tell it from omega_vals
omega_vals_odd == linspace(FromInt(-360), FromInt(360), FieldResolution + 1)

theta_vals == linspace(FromInt(-180), FromInt(180), FieldResolution)
omega_vals == linspace(FromInt(-360), FromInt(360), FieldResolution)

\* lines 89-94 at the grid point p: T, W = np.meshgrid(...) and the arrows
field_units(p, dT, dW, mag) ==
    [state |-> "done", i |-> p.i, j |-> p.j, T |-> p.T, W |-> p.W, g |-> p.g, L |-> p.L,
     dT |-> dT, dW |-> dW, magnitude |-> mag,
     dT_unit |-> unit(dT, mag), dW_unit |-> unit(dW, mag)]
field_at(p, dT, dW) == field_units(p, dT, dW, magnitude(dT, dW))

(* ------------------------------------------------------------------ *)
(* State                                                              *)
(* ------------------------------------------------------------------ *)
VARIABLES
    g,            \* sidebar: gravity
    L,            \* sidebar: rod length
    theta0_deg,   \* sidebar: initial angle, degrees
    omega0_deg,   \* sidebar: initial angular velocity, degrees/s
    cache,        \* st.cache_resource's entries for solve_pendulum
    call,         \* the arguments of the solve_pendulum call under way
    sv,           \* the RK45 solver and the locals of solve_ivp's loop
    ret,          \* what the call returned or raised
    out,          \* the script's results of its last run
    runs,         \* script runs finished
    fld,          \* one point of the vector field
    fresh,        \* history: what each uncached integration returned, by its arguments
    pc            \* where control is

vars == <<g, L, theta0_deg, omega0_deg, cache, call, sv, ret, out, runs, fld, fresh, pc>>
widgets == <<g, L, theta0_deg, omega0_deg>>

NoCall == [g |-> One, L |-> One, theta0 |-> Zero, omega0 |-> Zero, t_eval |-> <<>>]
NoSolver == [status |-> "none"]
NoRet == [kind |-> "none"]
NoOut == [error |-> "not run"]
NoField == [state |-> "none"]
EmptyCache == [k \in {} |-> NoRet]

(* ------------------------------------------------------------------ *)
(* solve_pendulum: the call, the integrator's steps, the return       *)
(* ------------------------------------------------------------------ *)
\* solve_pendulum(g, L, theta0, omega0, t_eval) up to the first solver.step():
\* solve_ivp checks t_eval, RK45.__init__ evaluates pendulum (g / L raises
\* for L == 0) and picks the first step
next_attempt(s) ==
    /\ sv' = s
    /\ pc' = IF s.status = "failed" THEN "finish" ELSE "stage"
BeginSolve(a) ==
    IF t_eval_rejected(a.t_eval)
    THEN /\ ret' = [kind |-> "raise", exc |-> "ValueError"]
         /\ sv' = NoSolver
         /\ pc' = "returned"
    ELSE IF pendulum_raises(a.g, a.L)
    THEN /\ ret' = [kind |-> "raise", exc |-> "ZeroDivisionError"]
         /\ sv' = NoSolver
         /\ pc' = "returned"
    ELSE /\ ret' = NoRet
         /\ next_attempt(step_head(rk45_init(a)))

\* a direct call of solve_pendulum with the arguments in call
solve_pendulum ==
    /\ pc = "call"
    /\ BeginSolve(call)
    /\ UNCHANGED <<widgets, cache, call, out, runs, fld, fresh>>

\* rk_step: one pass of its loop over the stages, K[s] = fun(t + c*h, y + dy)
rk_stage ==
    /\ pc = "stage"
    /\ Len(sv.K) < 6
    /\ sv' = [sv EXCEPT !.K = Append(@, pendulum(call.g, call.L,
                 VAdd(sv.y, VScale(Dot(sv.K, RK_A[Len(sv.K) + 1], Len(sv.K)), sv.h))))]
    /\ UNCHANGED <<widgets, cache, call, ret, out, runs, fld, fresh, pc>>

\* rk_step after the loop: y_new, f_new and K[-1] = f_new
rk_finished(y_new) ==
    sv' = [sv EXCEPT !.y_new = y_new, !.f_new = pendulum(call.g, call.L, y_new),
                     !.K = Append(@, pendulum(call.g, call.L, y_new))]
rk_final ==
    /\ pc = "stage"
    /\ Len(sv.K) = 6
    /\ rk_finished(VAdd(sv.y, VScale(Dot(sv.K, RK_B, 6), sv.h)))
    /\ pc' = "control"
    /\ UNCHANGED <<widgets, cache, call, ret, out, runs, fld, fresh>>

\* the step controller's factors: a rejected step shrinks by
\* max(MIN_FACTOR, SAFETY * error_norm ** -0.2); an accepted one sets the next
\* step by min(MAX_FACTOR, SAFETY * error_norm ** -0.2), at most 1 after a rejection
shrink_factor(error_norm) == PyMax(MIN_FACTOR, FMul(SAFETY, FInvRoot5(error_norm)))
limit_factor(factor, step_rejected) == IF step_rejected THEN PyMin(One, factor) ELSE factor
grow_factor(error_norm, step_rejected) ==
    limit_factor(IF FEq(error_norm, Zero) THEN MAX_FACTOR
                 ELSE PyMin(MAX_FACTOR, FMul(SAFETY, FInvRoot5(error_norm))),
                 step_rejected)
accept_step(s, factor) ==
    [s EXCEPT !.t_old = s.t, !.y_old = s.y, !.t = s.t_new, !.y = s.y_new, !.f = s.f_new,
              !.h_abs = FMul(FAbs(s.h), factor),
              !.status = IF FGe(FSub(s.t_new, tf), Zero) THEN "finished" ELSE "running"]
reject_step(s, factor) ==
    attempt_head([s EXCEPT !.h_abs = FMul(FAbs(s.h), factor), !.step_rejected = TRUE])
control_with(error_norm) ==
    IF FLt(error_norm, One)
    THEN /\ sv' = accept_step(sv, grow_factor(error_norm, sv.step_rejected))
         /\ pc' = "sample"
    ELSE next_attempt(reject_step(sv, shrink_factor(error_norm)))

\* _step_impl after rk_step: accept the step when the error norm is below 1
\* (and OdeSolver.step marks the solver finished at t_bound), else shrink
\* the step and try again
step_control ==
    /\ pc = "control"
    /\ control_with(estimate_error_norm(sv.K, sv.h, step_scale(sv.y, sv.y_new)))
    /\ UNCHANGED <<widgets, cache, call, ret, out, runs, fld, fresh>>

\* solve_ivp's loop body after solver.step(): the samples of t_eval up to t,
\* through the step's dense output; then the next step, or the end
collect(s, t_eval, t_eval_i_new) ==
    [s EXCEPT !.ys = @ \o [k \in 1..(t_eval_i_new - s.t_eval_i) |->
                              dense_output(s.K, s.t_old, s.t, s.y_old,
                                           t_eval[s.t_eval_i + k])],
              !.t_eval_i = t_eval_i_new]
after_sample(s) ==
    IF s.status = "finished" THEN sv' = s /\ pc' = "finish"
    ELSE next_attempt(step_head(s))
sample ==
    /\ pc = "sample"
    /\ after_sample(collect(sv, call.t_eval, searchsorted_right(call.t_eval, sv.t)))
    /\ UNCHANGED <<widgets, cache, call, ret, out, runs, fld, fresh>>

\* every argument of a call, for the history of integrations
AllArgs(a) == <<a.g, a.L, a.theta0, a.omega0, a.t_eval>>

\* solve_ivp returns its OdeResult, whatever the solver's status
finish ==
    /\ pc = "finish"
    /\ ret' = OdeResult(sv, call.t_eval)
    /\ fresh' = [k \in DOMAIN fresh \cup {AllArgs(call)} |->
                    IF k = AllArgs(call) THEN OdeResult(sv, call.t_eval) ELSE fresh[k]]
    /\ pc' = "returned"
    /\ UNCHANGED <<widgets, cache, call, sv, out, runs, fld>>

(* ------------------------------------------------------------------ *)
(* The script: a run per widget change                                *)
(* ------------------------------------------------------------------ *)
GravityChoices == {D(981, -2), D(1, 0)}
LengthChoices == {D(1, 0), D(5, 0)}
Theta0Choices == {0, 30, 180}
Omega0Choices == {0, 90}

\* the arguments the script passes at line 54
script_args ==
    [g |-> g, L |-> L, theta0 |-> radians(FromInt(theta0_deg)),
     omega0 |-> radians(FromInt(omega0_deg)), t_eval |-> t_eval_grid]

\* lines 37-54: read the widgets and call the cached solve_pendulum: a hit
\* returns the stored object, a miss runs the function
run_script ==
    /\ pc = "script"
    /\ call' = script_args
    /\ IF CacheKey(script_args) \in DOMAIN cache
       THEN /\ ret' = cache[CacheKey(script_args)]
            /\ sv' = NoSolver
            /\ pc' = "returned"
       ELSE BeginSolve(script_args)
    /\ UNCHANGED <<widgets, cache, out, runs, fld, fresh>>

\* the result is stored under the call's key (an exception is not), and the
\* script goes on from line 55
script_rest ==
    /\ pc = "returned"
    /\ cache' = IF ret.kind = "return" /\ CacheKey(call) \notin DOMAIN cache
                THEN [k \in DOMAIN cache \cup {CacheKey(call)} |->
                         IF k = CacheKey(call) THEN ret ELSE cache[k]]
                ELSE cache
    /\ out' = derive(ret, g, L, call.theta0, call.omega0)
    /\ runs' = runs + 1
    /\ pc' = "idle"
    /\ UNCHANGED <<widgets, call, sv, ret, fld, fresh>>

\* the user changes one sidebar input; Streamlit reruns the script
set_gravity ==
    /\ pc = "idle" /\ runs < MaxRuns
    /\ \E v \in GravityChoices \ {g} : g' = v
    /\ pc' = "script"
    /\ UNCHANGED <<L, theta0_deg, omega0_deg, cache, call, sv, ret, out, runs, fld, fresh>>
set_length ==
    /\ pc = "idle" /\ runs < MaxRuns
    /\ \E v \in LengthChoices \ {L} : L' = v
    /\ pc' = "script"
    /\ UNCHANGED <<g, theta0_deg, omega0_deg, cache, call, sv, ret, out, runs, fld, fresh>>
set_theta0 ==
    /\ pc = "idle" /\ runs < MaxRuns
    /\ \E v \in Theta0Choices \ {theta0_deg} : theta0_deg' = v
    /\ pc' = "script"
    /\ UNCHANGED <<g, L, omega0_deg, cache, call, sv, ret, out, runs, fld, fresh>>
set_omega0 ==
    /\ pc = "idle" /\ runs < MaxRuns
    /\ \E v \in Omega0Choices \ {omega0_deg} : omega0_deg' = v
    /\ pc' = "script"
    /\ UNCHANGED <<g, L, theta0_deg, cache, call, sv, ret, out, runs, fld, fresh>>

\* the first run, with the widgets' default values
Init ==
    /\ g = D(981, -2)
    /\ L = D(1, 0)
    /\ theta0_deg = 30
    /\ omega0_deg = 0
    /\ cache = EmptyCache
    /\ call = NoCall
    /\ sv = NoSolver
    /\ ret = NoRet
    /\ out = NoOut
    /\ runs = 0
    /\ fld = NoField
    /\ fresh = EmptyCache
    /\ pc = "script"

Next ==
    \/ run_script
    \/ rk_stage
    \/ rk_final
    \/ step_control
    \/ sample
    \/ finish
    \/ script_rest
    \/ set_gravity
    \/ set_length
    \/ set_theta0
    \/ set_omega0

Spec == Init /\ [][Next]_vars

(* ------------------------------------------------------------------ *)
(* solve_pendulum called directly, with any arguments                 *)
(* ------------------------------------------------------------------ *)
Deg30 == radians(FromInt(30))
\* in range, as the sidebar gives them
ValidParams == {<<D(981, -2), One>>, <<One, FromInt(5)>>}
\* positive, but g / L overflows
HugeParams == {<<D(1, 200), D(1, -200)>>}
\* gravity <= 0 or rodLength <= 0
InvalidParams == {<<FromInt(-1), One>>, <<D(981, -2), Zero>>, <<Zero, One>>,
                  <<One, FromInt(-1)>>}
\* grids solve_ivp is handed besides the script's: one starting at 1, one that
\* repeats a time, one that goes back
OtherGrids == {<<One, FromInt(5), FromInt(10)>>, <<Zero, FromInt(5), FromInt(5)>>, <<Zero, FromInt(5), Two>>}

Calls(params, thetas, omegas, grids) ==
    {[g |-> p[1], L |-> p[2], theta0 |-> th, omega0 |-> om, t_eval |-> te] :
        p \in params, th \in thetas, om \in omegas, te \in grids}

SolveCalls ==
    Calls(ValidParams, {Zero, Deg30, Pi}, {Zero, One}, {t_eval_grid})
    \cup Calls({<<D(981, -2), One>>}, {Zero, Deg30}, {Zero}, OtherGrids)
    \cup Calls(InvalidParams, {Zero, Deg30}, {Zero}, {t_eval_grid})
    \cup Calls(HugeParams, {Zero, Deg30}, {Zero}, {t_eval_grid})

SolveInit ==
    /\ g = D(981, -2)
    /\ L = D(1, 0)
    /\ theta0_deg = 30
    /\ omega0_deg = 0
    /\ cache = EmptyCache
    /\ call \in SolveCalls
    /\ sv = NoSolver
    /\ ret = NoRet
    /\ out = NoOut
    /\ runs = 0
    /\ fld = NoField
    /\ fresh = EmptyCache
    /\ pc = "call"

SolveNext ==
    \/ solve_pendulum
    \/ rk_stage
    \/ rk_final
    \/ step_control
    \/ sample
    \/ finish

SolveSpec == SolveInit /\ [][SolveNext]_vars

(* ------------------------------------------------------------------ *)
(* The vector field, one grid point at a time                         *)
(* ------------------------------------------------------------------ *)
vector_field ==
    /\ pc = "field"
    /\ fld.state = "point"
    /\ fld' = field_at(fld, field_dT(fld.W), field_dW(fld.g, fld.L, fld.T))
    /\ pc' = "plotted"
    /\ UNCHANGED <<widgets, cache, call, sv, ret, out, runs, fresh>>

FieldInit(points) ==
    /\ g = D(981, -2)
    /\ L = D(1, 0)
    /\ theta0_deg = 30
    /\ omega0_deg = 0
    /\ cache = EmptyCache
    /\ call = NoCall
    /\ sv = NoSolver
    /\ ret = NoRet
    /\ out = NoOut
    /\ runs = 0
    /\ fld \in points
    /\ fresh = EmptyCache
    /\ pc = "field"

\* the sidebar's ranges of g and L: their corners and the defaults
RangeParams == {<<One, FromInt(5)>>, <<FromInt(20), D(1, -1)>>, <<One, D(1, -1)>>,
                <<FromInt(20), FromInt(5)>>, <<D(981, -2), One>>}

\* the grid the script samples: T[j][i] = radians(theta_vals[i]),
\* W[j][i] = radians(omega_vals[j])
GridPoints ==
    {[state |-> "point", i |-> i, j |-> j, T |-> radians(theta_vals[i]),
      W |-> radians(omega_vals[j]), g |-> p[1], L |-> p[2]] :
        i \in 1..FieldResolution, j \in 1..FieldResolution, p \in RangeParams}

\* any phase-space point: the equilibria among them
AnyPoints ==
    {[state |-> "point", i |-> 0, j |-> 0, T |-> T, W |-> W, g |-> p[1], L |-> p[2]] :
        T \in {Zero, Pi, FNeg(Pi), HalfPi, One, FNeg(One)},
        W \in {Zero, One, FNeg(One), Two},
        p \in {<<D(981, -2), One>>, <<One, FromInt(5)>>, <<FromInt(20), D(1, -1)>>}}

GridSpec == FieldInit(GridPoints) /\ [][vector_field]_vars

PointSpec == FieldInit(AnyPoints) /\ [][vector_field]_vars

(* ------------------------------------------------------------------ *)
(* Properties                                                         *)
(* ------------------------------------------------------------------ *)
\* |a - b| <= tol; false when a nan is involved
Close(a, b, tol) == FLe(FAbs(FSub(a, b)), tol)
\* the escape energy 2 m g L
EscapeEnergy(g_, L_) == FMul(FMul(FMul(Two, m), g_), L_)
\* tolerances: energies to 1 % of the escape energy, velocities to 0.1 rad/s
EnergyTol(g_, L_) == FMul(D(1, -2), EscapeEnergy(g_, L_))
OmegaTol == D(1, -1)

\* a finished run of the script whose results are those of the widgets' values
RunDone == pc = "idle" /\ out.error = ""

\* C1: every point (theta_sep[i], +-omega_sep[i]) of the curve the script draws
\* has the energy 0.5 m L^2 omega^2 + m g L (1 - cos theta) = 2 m g L, to 1 %
C1_SeparatrixOnEscapeEnergy ==
    RunDone =>
        \A i \in 1..NumSepSamples :
            Close(currentEnergy(g, L, out.theta_sep[i], out.omega_sep[i]),
                  EscapeEnergy(g, L), EnergyTol(g, L))

\* the first run has drawn the curve
C1_CurveDrawn == RunDone /\ runs = 1

\* C2: when the initial state's energy E is the escape energy 2 g L m, every
\* trajectory sample, the first included, is on the curve: |omega[i]| is
\* sqrt(2 (g/L) (1 - cos theta[i])) to 0.1 rad/s
C2_EscapeTrajectoryOnSeparatrix ==
    (RunDone /\ Close(out.E, EscapeEnergy(g, L), EnergyTol(g, L))) =>
        \A i \in 1..Len(out.theta) :
            Close(FAbs(out.omega[i]), omega_sep_at(g, L, out.theta[i]), OmegaTol)

\* a run from theta0 = 180 degrees at rest: its energy is the escape energy
C2_RunAtEscapeEnergy ==
    RunDone /\ theta0_deg = 180 /\ omega0_deg = 0 /\ out.E = EscapeEnergy(g, L)

\* what spec'd vectorField returns at a point of velocity (dT, dW)
GuardedUnit(d, mag) == IF mag = Zero THEN Zero ELSE FDiv(d, mag)

InvalidParameter(a) == FLe(a.g, Zero) \/ FLe(a.L, Zero)
InvalidGrid(te) ==
    \/ te = <<>>
    \/ te[1] # Zero
    \/ \E i \in 1..(Len(te) - 1) : ~FLt(te[i], te[i + 1])
\* the call has failed, or will, without an integrator having been set up
RejectedBeforeIntegration ==
    /\ sv = NoSolver
    /\ pc = "returned" => ret.kind = "raise"

\* C4: a call with gravity <= 0 or rodLength <= 0 fails before any
\* integration step and returns no trajectory
C4_InvalidParameterRejected == InvalidParameter(call) => RejectedBeforeIntegration

\* a call with gravity <= 0 has returned
C4_InvalidCallReturned == InvalidParameter(call) /\ pc = "returned"

\* C5: a call whose grid is not strictly increasing or does not start at 0
\* fails before integration starts and returns no trajectory
C5_InvalidGridRejected ==
    (~InvalidParameter(call) /\ InvalidGrid(call.t_eval)) => RejectedBeforeIntegration

\* a call with a grid that starts at 1 has returned
C5_LateGridReturned ==
    ~InvalidParameter(call) /\ call.t_eval[1] = One /\ pc = "returned"

ValidCall(a) == ~InvalidParameter(a) /\ ~InvalidGrid(a.t_eval)

\* C6: for valid parameters and a valid grid, the first sample of a returned
\* trajectory, and of the samples collected so far, is (theta0, omega0) exactly
C6_FirstSampleIsInitialState ==
    ValidCall(call) =>
        /\ (sv # NoSolver /\ sv.ys # <<>>) => sv.ys[1] = <<call.theta0, call.omega0>>
        /\ (pc = "returned" /\ ret.kind = "return" /\ ret.y # <<>>) =>
               /\ ret.y[1][1] = call.theta0
               /\ ret.y[2][1] = call.omega0

\* a complete trajectory from a moving, displaced initial state has been returned
C6_MovingStartReturned ==
    /\ ValidCall(call) /\ call.theta0 = Deg30 /\ call.omega0 = One
    /\ pc = "returned" /\ ret.kind = "return" /\ ret.status = 0
    /\ Len(ret.y[1]) = NumTimeSamples
    /\ ret.y[1][2] # call.theta0

IsRest(y) == y = <<Zero, Zero>>

\* C7: from theta0 = 0, omega0 = 0 with gravity > 0 and rodLength > 0 the
\* solver's state is (0, 0) after every step, and so is every sample
C7_EquilibriumIsFixedPoint ==
    (~InvalidParameter(call) /\ IsRest(<<call.theta0, call.omega0>>)) =>
        /\ sv # NoSolver =>
               /\ IsRest(sv.y)
               /\ \A i \in 1..Len(sv.ys) : IsRest(sv.ys[i])
        /\ (pc = "returned" /\ ret.kind = "return" /\ ret.y # <<>>) =>
               \A i \in 1..Len(ret.y[1]) : IsRest(<<ret.y[1][i], ret.y[2][i]>>)

\* the whole trajectory from rest has been returned, after steps up to t = 10
C7_RestTrajectoryReturned ==
    /\ ~InvalidParameter(call) /\ IsRest(<<call.theta0, call.omega0>>)
    /\ pc = "returned" /\ ret.kind = "return" /\ ret.status = 0
    /\ Len(ret.y[1]) = NumTimeSamples
    /\ sv.t = tf

\* C8: a returned result, that of a stopped integrator included, has theta
\* and omega of the grid's length
C8_SequencesOfGridLength ==
    (pc = "returned" /\ ret.kind = "return") =>
        /\ ret.y # <<>>
        /\ Len(ret.y[1]) = Len(call.t_eval)
        /\ Len(ret.y[2]) = Len(call.t_eval)

\* the integrator has stopped before the horizon and a result has been returned
C8_StoppedEarly == pc = "returned" /\ ret.kind = "return" /\ ret.status = -1

\* C9: the result a run uses, from the cache or not, is the one an uncached
\* integration returned for this run's g, L, theta0, omega0, t_eval
C9_NoStaleTrajectory ==
    /\ (pc = "returned" /\ ret.kind = "return") =>
           /\ call = script_args
           /\ AllArgs(call) \in DOMAIN fresh
           /\ ret = fresh[AllArgs(call)]
    /\ (pc = "idle" /\ out.error # "ZeroDivisionError" /\ out.error # "ValueError") =>
           /\ AllArgs(script_args) \in DOMAIN fresh
           /\ out.sol = fresh[AllArgs(script_args)]

\* three runs have been served by two integrations: the widgets came back
\* to earlier values and the cache was hit
C9_CacheHitAfterReturn ==
    /\ RunDone /\ runs = 3
    /\ Cardinality(DOMAIN fresh) = 2
    /\ Cardinality(DOMAIN cache) = 2

\* C10: neither grid of the field has a sample 0, and at every grid point,
\* for g and L at the ends of their ranges, dT and the divisor magnitude are
\* not 0 and the arrows are numbers
C10_NoZeroDivisorOnGrid ==
    /\ \A i \in 1..Len(theta_vals) : theta_vals[i] # Zero
    /\ \A j \in 1..Len(omega_vals) : omega_vals[j] # Zero
    /\ fld.state = "done" =>
           /\ fld.dT # Zero
           /\ fld.magnitude # Zero
           /\ IsFinite(fld.dT_unit)
           /\ IsFinite(fld.dW_unit)

\* the field at one of the four grid points nearest the origin
C10_NearestToOriginEvaluated ==
    /\ fld.state = "done"
    /\ fld.i = FieldResolution \div 2
    /\ fld.j = FieldResolution \div 2 + 1
    /\ FLt(FAbs(fld.W), D(2, -1))
====
